---- MODULE Spec2Model ----
(***************************************************************************)
(* A model of createEffectCleaner (react-use-effect-cleaner).              *)
(*                                                                         *)
(* The repository holds three versions of the same function; the model     *)
(* follows the most complete one (src/unnamed/part_000, lines 1-107), of   *)
(* which the other two are prefixes: lines 109-202 lack the callback, and  *)
(* src/src/index.ts lacks the callback and the timer stores.               *)
(*                                                                         *)
(* JavaScript runs one call at a time, so the model keeps a call stack.    *)
(* A frame is a call of this code that waits for caller-owned code it has  *)
(* called: a wrapper waiting for the original state modifier, or clean()   *)
(* waiting for abortController.abort(), cancelTokenSource.cancel() or the  *)
(* callback.  clearInterval and clearTimeout call nobody back.  The        *)
(* caller-owned code on top of the stack, or the host when the stack is    *)
(* empty, may call wrappers and clean() before it returns or throws; the   *)
(* host alone constructs guards and writes the timer stores.               *)
(*                                                                         *)
(* Spec lets the host make any call at any time.  UsageSpec restricts the  *)
(* host to the component of the README's sample (src/README.md, lines      *)
(* 59-82), whose effect is run and invalidated by the framework.           *)
(***************************************************************************)
EXTENDS Integers, Sequences, FiniteSets, TLC

\* ---------------------------------------------------------------- bounds
MaxOps == 4     \* the calls the host and caller-owned code make in one behaviour

\* ---------------------------------------------------------------- values
\* the effect runs of the component: each calls createEffectCleaner once
Guards == {1, 2}
Undefined == "undefined"
Absent == "absent"
\* the property names a caller may use in stateModifiers
Keys == {"setUser", "setCount", "clean"}
\* the stateModifiers arguments tried: null/undefined, or an object of functions
MutatorSets ==
  {[isNull |-> TRUE, keys |-> {}]}
    \cup {[isNull |-> FALSE, keys |-> ks] :
            ks \in {{"setUser", "setCount"}, {"setUser", "clean"}}}
\* the calls tried: effects.setUser(5), and a bare reference called with two arguments
CallShapes == {[this |-> "effects", args |-> <<5>>], [this |-> Undefined, args |-> <<5, 6>>]}
RetVals == {Undefined, "ret"}
TimerKeys == {"a", "b"}
Stores == {"timeoutIds", "intervalIds"}
\* an option is absent, or an object with its method (an object without the
\* method fails the same `x && x.abort` test as an absent one)
HandleVals == {Absent, "present"}
\* the opts arguments tried: undefined, or an object with any of the fields
OptsChoices ==
  {[given |-> FALSE, abortController |-> Absent, cancelTokenSource |-> Absent,
    intervalIds |-> FALSE, timeoutIds |-> FALSE, callback |-> FALSE]}
    \cup [given : {TRUE}, abortController : HandleVals, cancelTokenSource : HandleVals,
          intervalIds : BOOLEAN, timeoutIds : BOOLEAN, callback : BOOLEAN]

VARIABLES
  stateModifiers,  \* the first argument the component passes to createEffectCleaner
  opts,            \* the second argument the component passes
  proxies,         \* per guard: the object createEffectCleaner returned, if made
  stalled,         \* per guard: the closure's _stalled
  stack,           \* the call stack, innermost call last
  timerIds,        \* the two stores: sequences of [key, id] in insertion order
  nextId,          \* the handles handed out so far
  ops,             \* the calls made so far
  last,            \* what the call that has just ended gave its caller
  effect           \* per guard: the effect run of the README's component that made it

vars == <<stateModifiers, opts, proxies, stalled, stack,
          timerIds, nextId, ops, last, effect>>

\* ---------------------------------------------------------------- frames
\* A frame is a call of ours that is waiting for caller-owned code to end: a
\* wrapper waiting for the original function (kind "orig"), or clean() waiting
\* for the call named by pc: abort(), cancel() or the callback.
NoCall == [fn |-> "-", this |-> Undefined, args |-> <<>>]
CleanFrame(g, was, pc, log) ==
  [kind |-> "clean", g |-> g, pc |-> pc, recv |-> NoCall, call |-> NoCall,
   log |-> log, was |-> was]
OrigFrame(g, recv, call) ==
  [kind |-> "orig", g |-> g, pc |-> "-", recv |-> recv, call |-> call,
   log |-> <<>>, was |-> FALSE]
Event(ev, id) == [ev |-> ev, id |-> id]

Top == stack[Len(stack)]
Pop(s) == SubSeq(s, 1, Len(s) - 1)
Push(s, f) == Append(s, f)

\* what the caller of a wrapper or of clean() got back
NoOutcome ==
  [op |-> "none", g |-> 0, forwarded |-> FALSE, ret |-> Undefined,
   orig |-> Undefined, threw |-> FALSE, log |-> <<>>, was |-> FALSE]
CallOutcome(g, forwarded, ret, orig, threw) ==
  [op |-> "call", g |-> g, forwarded |-> forwarded, ret |-> ret,
   orig |-> orig, threw |-> threw, log |-> <<>>, was |-> FALSE]
CleanOutcome(g, was, log, threw) ==
  [op |-> "clean", g |-> g, forwarded |-> FALSE, ret |-> Undefined,
   orig |-> Undefined, threw |-> threw, log |-> log, was |-> was]

\* ---------------------------------------------------------------- construction
\* Object.keys(stateModifiers || {})
ObjectKeys(sm) == IF sm.isNull THEN {} ELSE sm.keys
\* the reduce: result[key] = new Proxy(stateModifiers[key], handler)
Wrapped(sm) == [k \in ObjectKeys(sm) |-> [kind |-> "proxy", target |-> k]]
\* mutant: clean is only added when the name is free
WithCleanKeep(obj) ==
  [k \in DOMAIN obj \cup {"clean"} |->
     IF k \in DOMAIN obj THEN obj[k] ELSE [kind |-> "clean", target |-> "-"]]
\* proxies.clean = () => {...}
WithClean(obj) ==
  [k \in DOMAIN obj \cup {"clean"} |->
     IF k = "clean" THEN [kind |-> "clean", target |-> "-"] ELSE obj[k]]
\* mutant: _stalled declared once for the module, so every construction resets it
NewFlagShared(g) == [h \in Guards |-> FALSE]
\* mutant: let _stalled = true
NewFlagStalled(g) == [stalled EXCEPT ![g] = TRUE]
\* let _stalled = false: a variable of this call's closure
NewFlag(g) == [stalled EXCEPT ![g] = FALSE]

\* an effect run: whether the framework has run it and has invalidated it
\* since (unmount, or a change of userId), the statement its body has
\* reached, and whether its request is still to resolve
EffectRun(phase, pc, pending) == [phase |-> phase, pc |-> pc, pending |-> pending]
NotRun == EffectRun("none", "create", FALSE)

Init ==
  /\ stateModifiers \in MutatorSets
  /\ opts \in OptsChoices
  /\ proxies = [g \in Guards |-> [made |-> FALSE, obj |-> <<>>]]
  /\ stalled = [g \in Guards |-> FALSE]
  /\ stack = <<>>
  /\ timerIds = [s \in Stores |-> <<>>]
  /\ nextId = 0
  /\ ops = 0
  /\ last = NoOutcome
  /\ effect = [g \in Guards |-> NotRun]

\* createEffectCleaner(stateModifiers, opts), called by the host
CreateEffectCleaner(g) ==
  /\ stack = <<>>
  /\ ops < MaxOps
  /\ ops' = ops + 1
  /\ ~proxies[g].made
  /\ \A h \in Guards : h < g => proxies[h].made
  /\ proxies' = [proxies EXCEPT ![g] = [made |-> TRUE, obj |-> WithClean(Wrapped(stateModifiers))]]
  /\ stalled' = NewFlag(g)
  /\ last' = NoOutcome
  /\ UNCHANGED <<stateModifiers, opts, stack, timerIds, nextId>>

\* ---------------------------------------------------------------- handler.apply
\* mutant: the `if (_stalled) return;` is missing
ForwardsAlways(g) == TRUE
\* mutant: the flag is cleared again when clean() ends, so it only holds
\* while a clean() of the guard is running
ForwardsOnceCleanEnded(g) ==
  ~(stalled[g] /\ \E i \in 1..Len(stack) : stack[i].kind = "clean" /\ stack[i].g = g)
\* if (_stalled) return;
Forwards(g) == ~stalled[g]
\* mutant: stateModifier(...argArray), which loses the receiver
ForwardCallNoThis(target, thisArg, argArray) ==
  [fn |-> target, this |-> Undefined, args |-> argArray]
\* stateModifier.call(thisArg, ...argArray)
ForwardCall(target, thisArg, argArray) == [fn |-> target, this |-> thisArg, args |-> argArray]
\* mutant: the flag is looked at again once the original has returned
ApplyReturnRecheck(v) == IF stalled[Top.g] THEN Undefined ELSE v
\* return stateModifier.call(...)
ApplyReturn(v) == v

\* mutant: only the wrapper of setUser looks at the flag
ApplySetUserOnly(g, k, t, a) ==
  /\ ops < MaxOps
  /\ ops' = ops + 1
  /\ proxies[g].made
  /\ k \in DOMAIN proxies[g].obj
  /\ proxies[g].obj[k].kind = "proxy"
  /\ IF Forwards(g) \/ k # "setUser"
       THEN /\ stack' = Push(stack, OrigFrame(g, [fn |-> k, this |-> t, args |-> a],
                                              ForwardCall(proxies[g].obj[k].target, t, a)))
            /\ last' = NoOutcome
       ELSE /\ stack' = stack
            /\ last' = CallOutcome(g, FALSE, Undefined, Undefined, FALSE)
  /\ UNCHANGED <<stateModifiers, opts, proxies, stalled, timerIds, nextId>>
\* a call of the wrapper proxies[g][k], with receiver t and arguments a
Apply(g, k, t, a) ==
  /\ ops < MaxOps
  /\ ops' = ops + 1
  /\ proxies[g].made
  /\ k \in DOMAIN proxies[g].obj
  /\ proxies[g].obj[k].kind = "proxy"
  /\ IF Forwards(g)
       THEN /\ stack' = Push(stack, OrigFrame(g, [fn |-> k, this |-> t, args |-> a],
                                              ForwardCall(proxies[g].obj[k].target, t, a)))
            /\ last' = NoOutcome
       ELSE /\ stack' = stack
            /\ last' = CallOutcome(g, FALSE, Undefined, Undefined, FALSE)
  /\ UNCHANGED <<stateModifiers, opts, proxies, stalled, timerIds, nextId>>

\* the original function returns v, and handler.apply returns with it
OrigReturn(v) ==
  /\ stack # <<>>
  /\ ops' = ops
  /\ Top.kind = "orig"
  /\ stack' = Pop(stack)
  /\ last' = CallOutcome(Top.g, TRUE, ApplyReturn(v), v, FALSE)
  /\ UNCHANGED <<stateModifiers, opts, proxies, stalled, timerIds, nextId>>

\* the original function throws, and the error passes through handler.apply
OrigThrow ==
  /\ stack # <<>>
  /\ ops' = ops
  /\ Top.kind = "orig"
  /\ stack' = Pop(stack)
  /\ last' = CallOutcome(Top.g, TRUE, Undefined, Undefined, TRUE)
  /\ UNCHANGED <<stateModifiers, opts, proxies, stalled, timerIds, nextId>>

\* ---------------------------------------------------------------- proxies.clean
\* mutant: the method is called without the `x && x.abort` test
HasMethodUntested(h) == TRUE
\* const {abortController, ...} = opts || {}, then `x && x.abort`: the method is there
HasMethod(h) == h = "present"
\* mutant: the assignment is not made before the calls
SetStalledNot(g) == stalled
\* mutant: _stalled is one variable of the module, shared by every guard
SetStalledAll(g) == [h \in Guards |-> TRUE]
\* _stalled = true, the first statement
SetStalled(g) == [stalled EXCEPT ![g] = TRUE]
\* mutant: the callback is called right after the two try blocks
NextPcCallbackEarly(pc) ==
  CASE pc = "abort" -> "cancel"
    [] pc = "cancel" -> "callback"
    [] pc = "callback" -> "intervals"
    [] pc = "intervals" -> "timeouts"
    [] pc = "timeouts" -> "done"
\* mutant: the two timer blocks change places
NextPcTimeoutsFirst(pc) ==
  CASE pc = "abort" -> "cancel"
    [] pc = "cancel" -> "timeouts"
    [] pc = "timeouts" -> "intervals"
    [] pc = "intervals" -> "callback"
    [] pc = "callback" -> "done"
\* the statements of clean() after the first, in order
NextPc(pc) ==
  CASE pc = "abort" -> "cancel"
    [] pc = "cancel" -> "intervals"
    [] pc = "intervals" -> "timeouts"
    [] pc = "timeouts" -> "callback"
    [] pc = "callback" -> "done"
\* mutant: abort() is called outside the try
CaughtCancelOnly(pc) == pc = "cancel"
\* the calls that sit in a try { } catch (ex) { }
Caught(pc) == pc \in {"abort", "cancel"}
\* mutant: the closure of the first guard holds a copy made at construction,
\* when the stores were empty
ReadStoreCopy(g, s) == IF g = 1 THEN <<>> ELSE timerIds[s]
\* the store clean() of guard g reads at the `if (intervalIds)` / `if (timeoutIds)`
\* statement: the closure holds a reference to the caller's object, not a copy
ReadStore(g, s) == timerIds[s]
\* mutant: the loop stops one key short
ClearEventsButLast(ev, store) == [i \in 1..(Len(store) - 1) |-> Event(ev, store[i].id)]
\* Object.keys(ids).forEach((key) => clear(ids[key]))
ClearEvents(ev, store) == [i \in 1..Len(store) |-> Event(ev, store[i].id)]

\* clean() of guard g runs from statement pc until it calls caller-owned code
\* or ends: the statement it stops in ("done" at the end) and its log, which
\* lists the calls it has made, with "threw" after a call that threw
RECURSIVE Run(_, _, _)
Run(g, pc, log) ==
  CASE pc = "abort" ->
         IF HasMethod(opts.abortController)
           THEN [pc |-> pc, log |-> Append(log, Event("abort", 0))]
           ELSE Run(g, NextPc(pc), log)
    [] pc = "cancel" ->
         IF HasMethod(opts.cancelTokenSource)
           THEN [pc |-> pc, log |-> Append(log, Event("cancel", 0))]
           ELSE Run(g, NextPc(pc), log)
    [] pc = "intervals" ->
         Run(g, NextPc(pc),
             IF opts.intervalIds
               THEN log \o ClearEvents("clearInterval", ReadStore(g, "intervalIds"))
               ELSE log)
    [] pc = "timeouts" ->
         Run(g, NextPc(pc),
             IF opts.timeoutIds
               THEN log \o ClearEvents("clearTimeout", ReadStore(g, "timeoutIds"))
               ELSE log)
    [] pc = "callback" ->
         IF opts.callback
           THEN [pc |-> pc, log |-> Append(log, Event("callback", 0))]
           ELSE [pc |-> "done", log |-> log]
    [] pc = "done" -> [pc |-> pc, log |-> log]

\* clean() of guard g, on the stack s of its caller, has run to r
Ran(s, g, was, r) ==
  IF r.pc = "done"
    THEN /\ stack' = s
         /\ last' = CleanOutcome(g, was, r.log, FALSE)
    ELSE /\ stack' = Push(s, CleanFrame(g, was, r.pc, r.log))
         /\ last' = NoOutcome

\* mutant: clean() returns at once when the guard is stalled already
CleanOnce(g) ==
  /\ ops < MaxOps
  /\ ops' = ops + 1
  /\ proxies[g].made
  /\ stalled' = SetStalled(g)
  /\ IF stalled[g]
       THEN /\ stack' = stack
            /\ last' = CleanOutcome(g, TRUE, <<>>, FALSE)
       ELSE Ran(stack, g, stalled[g], Run(g, "abort", <<>>))
  /\ UNCHANGED <<stateModifiers, opts, proxies, timerIds, nextId>>

\* a call of proxies[g].clean(): the flag is set and the body runs
Clean(g) ==
  /\ ops < MaxOps
  /\ ops' = ops + 1
  /\ proxies[g].made
  /\ stalled' = SetStalled(g)
  /\ Ran(stack, g, stalled[g], Run(g, "abort", <<>>))
  /\ UNCHANGED <<stateModifiers, opts, proxies, timerIds, nextId>>

\* abort(), cancel() or the callback returns, and clean() runs on
ExtReturn ==
  /\ stack # <<>>
  /\ ops' = ops
  /\ Top.kind = "clean"
  /\ Ran(Pop(stack), Top.g, Top.was, Run(Top.g, NextPc(Top.pc), Top.log))
  /\ UNCHANGED <<stateModifiers, opts, proxies, stalled, timerIds, nextId>>

\* abort(), cancel() or the callback throws: clean() runs on if it catches
ExtThrow ==
  /\ stack # <<>>
  /\ ops' = ops
  /\ Top.kind = "clean"
  /\ IF Caught(Top.pc)
       THEN Ran(Pop(stack), Top.g, Top.was,
                Run(Top.g, NextPc(Top.pc), Append(Top.log, Event("threw", 0))))
       ELSE /\ stack' = Pop(stack)
            /\ last' = CleanOutcome(Top.g, Top.was, Append(Top.log, Event("threw", 0)), TRUE)
  /\ UNCHANGED <<stateModifiers, opts, proxies, stalled, timerIds, nextId>>

\* ---------------------------------------------------------------- the host's timers
HasKey(store, k) == \E i \in 1..Len(store) : store[i].key = k
\* ids[k] = id: an own property keeps its place, a new one goes last
Put(store, k, id) ==
  IF HasKey(store, k)
    THEN [i \in 1..Len(store) |-> IF store[i].key = k THEN [key |-> k, id |-> id] ELSE store[i]]
    ELSE Append(store, [key |-> k, id |-> id])
\* delete ids[k]
Remove(store, k) == SelectSeq(store, LAMBDA e : e.key # k)

\* timeoutIds[k] = setTimeout(...) or intervalIds[k] = setInterval(...): the effect
\* makes the stores empty, passes them in opts, and schedules timers afterwards
SetTimer(s, k) ==
  /\ stack = <<>>
  /\ opts[s]
  /\ proxies[1].made
  /\ ops < MaxOps
  /\ ops' = ops + 1
  /\ nextId' = nextId + 1
  /\ timerIds' = [timerIds EXCEPT ![s] = Put(@, k, nextId + 1)]
  /\ last' = NoOutcome
  /\ UNCHANGED <<stateModifiers, opts, proxies, stalled, stack>>

\* delete timeoutIds[k] or delete intervalIds[k]
DeleteTimer(s, k) ==
  /\ stack = <<>>
  /\ HasKey(timerIds[s], k)
  /\ ops < MaxOps
  /\ ops' = ops + 1
  /\ timerIds' = [timerIds EXCEPT ![s] = Remove(@, k)]
  /\ last' = NoOutcome
  /\ UNCHANGED <<stateModifiers, opts, proxies, stalled, stack, nextId>>

\* ---------------------------------------------------------------- specification
\* the host makes the calls itself: no effect run of the README's component
Next ==
  \/ \E g \in Guards : CreateEffectCleaner(g) /\ UNCHANGED effect
  \/ \E g \in Guards, k \in Keys, c \in CallShapes :
       Apply(g, k, c.this, c.args) /\ UNCHANGED effect
  \/ \E v \in RetVals : OrigReturn(v) /\ UNCHANGED effect
  \/ OrigThrow /\ UNCHANGED effect
  \/ \E g \in Guards : Clean(g) /\ UNCHANGED effect
  \/ ExtReturn /\ UNCHANGED effect
  \/ ExtThrow /\ UNCHANGED effect
  \/ \E s \in Stores, k \in TimerKeys : SetTimer(s, k) /\ UNCHANGED effect
  \/ \E s \in Stores, k \in TimerKeys : DeleteTimer(s, k) /\ UNCHANGED effect

Spec == Init /\ [][Next]_vars

\* ---------------------------------------------------------------- the README's component
\* useEffect(() => { const abortController = new AbortController();
\*   const effects = createEffectCleaner({setUser}, {abortController});
\*   getUserProfile(userId, abortController.signal).then(effects.setUser);
\* the framework runs the effect after mount, and again after it has
\* invalidated the run before (userId changed)
RunEffect(g) ==
  /\ effect[g] = NotRun
  /\ \A h \in Guards : h < g => effect[h].phase = "invalid"
  /\ CreateEffectCleaner(g)
  /\ effect' = [effect EXCEPT ![g] = EffectRun("valid", "return", TRUE)]

\* return effects.clean(); }, [userId]): the body calls clean() and hands the
\* framework what clean() returns
ReturnClean(g) ==
  /\ effect[g].pc = "return"
  /\ Clean(g)
  /\ effect' = [effect EXCEPT ![g].pc = "done"]

\* the request resolves in a later turn and the promise calls its
\* continuation, effects.setUser, with the profile and no receiver
Resolve(g) ==
  /\ stack = <<>>
  /\ effect[g].pc = "done"
  /\ effect[g].pending
  /\ Apply(g, "setUser", Undefined, <<5>>)
  /\ effect' = [effect EXCEPT ![g].pending = FALSE]

\* the component is unmounted or userId changes: the framework calls the
\* cleanup function the body returned, and the body returned undefined (the
\* value of the call effects.clean()), so there is nothing it calls
Invalidate(g) ==
  /\ stack = <<>>
  /\ effect[g].phase = "valid"
  /\ effect[g].pc = "done"
  /\ effect' = [effect EXCEPT ![g].phase = "invalid"]
  /\ last' = NoOutcome
  /\ UNCHANGED <<stateModifiers, opts, proxies, stalled, stack, timerIds, nextId, ops>>

\* the component passes setUser and an abortController
UsageInit ==
  /\ Init
  /\ "setUser" \in ObjectKeys(stateModifiers)
  /\ HasMethod(opts.abortController)

\* no original function runs here (see C11), so none returns or throws
UsageNext ==
  \/ \E g \in Guards : RunEffect(g)
  \/ \E g \in Guards : ReturnClean(g)
  \/ \E g \in Guards : Resolve(g)
  \/ \E g \in Guards : Invalidate(g)
  \/ ExtReturn /\ UNCHANGED effect
  \/ ExtThrow /\ UNCHANGED effect

UsageSpec == UsageInit /\ [][UsageNext]_vars

\* ---------------------------------------------------------------- steps
\* this step is a call: of a wrapper, of clean(), or by the host
Called == ops' = ops + 1
\* this step leaves a new frame of this kind for guard g on the stack
Pushed(kind, g) ==
  /\ Len(stack') = Len(stack) + 1
  /\ stack'[Len(stack')].kind = kind
  /\ stack'[Len(stack')].g = g
\* this step is a call of guard g's clean()
CleanEntered(g) ==
  /\ Called
  /\ Pushed("clean", g) \/ (last'.op = "clean" /\ last'.g = g)
\* this step is a call of a wrapper of guard g that returns at once
Discarded(g) == Called /\ last'.op = "call" /\ last'.g = g
Range(f) == {f[i] : i \in DOMAIN f}
\* a call of this kind for guard g is on the stack
OnStack(kind, g) == \E i \in 1..Len(stack) : stack[i].kind = kind /\ stack[i].g = g

\* ---------------------------------------------------------------- claims

\* C1: once clean() of a guard has been called, a call of any wrapper of that
\* guard does not invoke the original function, does not throw and returns
\* undefined.
C1_StalledWrapperIsInert ==
  [][\A g \in Guards :
       stalled[g] =>
         /\ ~Pushed("orig", g)
         /\ Discarded(g) =>
              (~last'.forwarded /\ ~last'.threw /\ last'.ret = Undefined)]_vars
\* a wrapper of a stalled guard has been called and has returned at once
C1_Witness ==
  /\ last.op = "call"
  /\ ~last.forwarded
  /\ stalled[last.g]

\* C2: while clean() of a guard has not been called, every call of a wrapper of
\* that guard invokes the original function once, with the receiver and the
\* arguments of the call, and returns what the original returns.
C2_ActiveWrapperForwards ==
  [][/\ \A g \in Guards : ~stalled[g] => ~Discarded(g)
     /\ \A g \in Guards :
          Pushed("orig", g) =>
            LET f == stack'[Len(stack')]
            IN  /\ ~stalled[g]
                /\ f.call = [fn |-> f.recv.fn, this |-> f.recv.this, args |-> f.recv.args]
     /\ (last'.op = "call" /\ last'.forwarded /\ ~last'.threw) => last'.ret = last'.orig]_vars
\* a forwarded call with a receiver has returned the original's result
C2_Witness ==
  /\ last.op = "call"
  /\ last.forwarded
  /\ ~last.threw
  /\ last.ret = "ret"
  /\ ~stalled[last.g]

\* C3: _stalled is false after construction, becomes true when clean() is
\* called, and no operation sets it back: only clean() leaves Active, and
\* nothing leaves Stalled.
C3_StalledIsTerminal ==
  [][\A g \in Guards :
       /\ stalled[g] => stalled'[g]
       /\ (~proxies[g].made /\ proxies'[g].made) => ~stalled'[g]
       /\ (~stalled[g] /\ stalled'[g]) => CleanEntered(g)
       /\ CleanEntered(g) => stalled'[g]]_vars
\* guard 1 has been cleaned twice and is stalled beside an active guard 2
C3_Witness ==
  /\ stalled[1]
  /\ proxies[2].made
  /\ ~stalled[2]
  /\ last.op = "clean"
  /\ last.g = 1
  /\ last.was

\* ---------------------------------------------------------------- teardown logs
\* the call ev of this log threw
Threw(log, ev) == \E i \in 1..(Len(log) - 1) : log[i].ev = ev /\ log[i + 1].ev = "threw"
\* the log's entries after the first "threw" that follows the call ev
AfterThrow(log, ev) ==
  LET i == CHOOSE j \in 1..(Len(log) - 1) : log[j].ev = ev /\ log[j + 1].ev = "threw"
  IN  Range(SubSeq(log, i + 2, Len(log)))
\* the ids the entries of kind ev name
IdsOf(events, ev) == {e.id : e \in {x \in events : x.ev = ev}}
StoreIds(s) == {timerIds[s][i].id : i \in 1..Len(timerIds[s])}
\* every entry of the stores passed in opts has been cleared by these events
AllCleared(events) ==
  /\ opts.intervalIds => StoreIds("intervalIds") \subseteq IdsOf(events, "clearInterval")
  /\ opts.timeoutIds => StoreIds("timeoutIds") \subseteq IdsOf(events, "clearTimeout")
\* the calls one run of clean() makes in this state
ExpectedCalls ==
  (IF HasMethod(opts.abortController) THEN {Event("abort", 0)} ELSE {})
    \cup (IF HasMethod(opts.cancelTokenSource) THEN {Event("cancel", 0)} ELSE {})
    \cup (IF opts.intervalIds
            THEN {Event("clearInterval", id) : id \in StoreIds("intervalIds")} ELSE {})
    \cup (IF opts.timeoutIds
            THEN {Event("clearTimeout", id) : id \in StoreIds("timeoutIds")} ELSE {})
    \cup (IF opts.callback THEN {Event("callback", 0)} ELSE {})

\* the logs of the calls of clean() that are running or have just ended
CleanLogs ==
  {stack[i].log : i \in {j \in 1..Len(stack) : stack[j].kind = "clean"}}
    \cup (IF last.op = "clean" THEN {last.log} ELSE {})
\* in this log every call of the kinds in first comes before every call of the kinds in later
Before(log, first, later) ==
  \A i, j \in 1..Len(log) : (log[i].ev \in first /\ log[j].ev \in later) => i < j
Clears == {"clearInterval", "clearTimeout"}

\* C4: no error escapes clean(), whichever options are given and whichever
\* caller-owned operations throw.
C4_CleanNeverRaises == ~(last.op = "clean" /\ last.threw)

\* C5: when abort() throws, the same clean() still calls cancel(), clears
\* every timer of both stores and calls the callback; when cancel() throws, it
\* still clears every timer and calls the callback.
C5_ThrowDoesNotStopTeardown ==
  last.op = "clean" =>
    /\ Threw(last.log, "abort") =>
         LET rest == AfterThrow(last.log, "abort")
         IN  /\ HasMethod(opts.cancelTokenSource) => Event("cancel", 0) \in rest
             /\ AllCleared(rest)
             /\ opts.callback => Event("callback", 0) \in rest
    /\ Threw(last.log, "cancel") =>
         LET rest == AfterThrow(last.log, "cancel")
         IN  /\ AllCleared(rest)
             /\ opts.callback => Event("callback", 0) \in rest
\* abort() threw, and cancel(), a timer clear and the callback followed
C5_Witness ==
  /\ last.op = "clean"
  /\ Threw(last.log, "abort")
  /\ Event("cancel", 0) \in AfterThrow(last.log, "abort")
  /\ Event("callback", 0) \in AfterThrow(last.log, "abort")
  /\ IdsOf(AfterThrow(last.log, "abort"), "clearTimeout") # {}

\* C6: _stalled is set before clean() calls abort(), cancel() or the callback,
\* so a wrapper called from inside any of them is discarded; and it is set
\* when clean() ends, also when clean() ends by an error.
C6_StalledBeforeAnyCall ==
  [][\A g \in Guards :
       /\ (\E i \in 1..Len(stack) : stack[i].kind = "clean" /\ stack[i].g = g) =>
            (stalled[g] /\ ~Pushed("orig", g))
       /\ (\E i \in 1..Len(stack') : stack'[i].kind = "clean" /\ stack'[i].g = g) =>
            stalled'[g]
       /\ (last'.op = "clean" /\ last'.g = g) => stalled'[g]]_vars
\* the callback of clean() is running and a wrapper it called was discarded
C6_Witness ==
  /\ stack # <<>>
  /\ Top.kind = "clean"
  /\ Top.pc = "callback"
  /\ last.op = "call"
  /\ last.g = Top.g
  /\ ~last.forwarded

\* C7: clean() clears every entry that timeoutIds and intervalIds hold when it
\* runs: none is left uncleared when it ends.
C7_EveryTimerCleared == last.op = "clean" => AllCleared(Range(last.log))
\* timeoutIds and intervalIds held one handle each and both were cleared
C7_Witness ==
  /\ last.op = "clean"
  /\ ~last.threw
  /\ StoreIds("timeoutIds") # {}
  /\ StoreIds("intervalIds") # {}
  /\ StoreIds("timeoutIds") \subseteq IdsOf(Range(last.log), "clearTimeout")
  /\ StoreIds("intervalIds") \subseteq IdsOf(Range(last.log), "clearInterval")

\* C8: clean() reads the stores when it runs: it clears the handles they hold
\* then, those written after construction included, and no handle that has
\* been removed from them.
C8_StoresReadAtTeardown ==
  last.op = "clean" =>
    /\ IdsOf(Range(last.log), "clearInterval") =
         (IF opts.intervalIds THEN StoreIds("intervalIds") ELSE {})
    /\ IdsOf(Range(last.log), "clearTimeout") =
         (IF opts.timeoutIds THEN StoreIds("timeoutIds") ELSE {})
\* guard 1 cleared a handle written after its construction (every handle is),
\* and did not clear a handle that had left the stores
C8_Witness ==
  /\ last.op = "clean"
  /\ last.g = 1
  /\ \E id \in 1..nextId :
       id \in IdsOf(Range(last.log), "clearTimeout") \cup IdsOf(Range(last.log), "clearInterval")
  /\ \E id \in 1..nextId :
       /\ id \notin StoreIds("timeoutIds") \cup StoreIds("intervalIds")
       /\ id \notin IdsOf(Range(last.log), "clearTimeout") \cup IdsOf(Range(last.log), "clearInterval")

C10_EveryKeyWrapped ==
  \A g \in Guards :
    proxies[g].made =>
      /\ DOMAIN proxies[g].obj = ObjectKeys(stateModifiers) \cup {"clean"}
      /\ proxies[g].obj["clean"].kind = "clean"
      /\ \A k \in ObjectKeys(stateModifiers) :
           proxies[g].obj[k] = [kind |-> "proxy", target |-> k]
\* C10, amended: the returned object holds a wrapper for every key of
\* stateModifiers other than clean, and the clean function under clean, where
\* it replaces the wrapper of a state modifier of that name; its keys are those
\* of stateModifiers and clean, and only clean when stateModifiers is null.
C10_KeysWrappedButClean ==
  \A g \in Guards :
    proxies[g].made =>
      /\ DOMAIN proxies[g].obj = ObjectKeys(stateModifiers) \cup {"clean"}
      /\ proxies[g].obj["clean"].kind = "clean"
      /\ \A k \in ObjectKeys(stateModifiers) \ {"clean"} :
           proxies[g].obj[k] = [kind |-> "proxy", target |-> k]
      /\ stateModifiers.isNull => DOMAIN proxies[g].obj = {"clean"}
\* a guard made from state modifiers one of which is named clean
C10_Witness ==
  /\ proxies[1].made
  /\ "clean" \in ObjectKeys(stateModifiers)
  /\ "setUser" \in DOMAIN proxies[1].obj

\* C11: in the README's usage the request is aborted and setUser is suppressed
\* only once the effect is invalidated: while the effect run is valid, abort()
\* of its guard has not been called and a resolved request reaches setUser.
C11_AbortOnlyOnceInvalid ==
  \A g \in Guards :
    effect[g].phase = "valid" =>
      /\ ~(\E i \in 1..Len(stack) :
             /\ stack[i].kind = "clean"
             /\ stack[i].g = g
             /\ Event("abort", 0) \in Range(stack[i].log))
      /\ ~(last.op = "clean" /\ last.g = g /\ Event("abort", 0) \in Range(last.log))
      /\ (last.op = "call" /\ last.g = g) => last.forwarded

\* C12: a call of clean() calls the callback only after it has called abort()
\* and cancel() (where given) and has cleared every timer the stores hold, and
\* it makes no abort, cancel or clear call after the callback.
C12_CallbackAfterAllAttempts ==
  \A log \in CleanLogs :
    \A i \in 1..Len(log) :
      log[i].ev = "callback" =>
        /\ ExpectedCalls \ {Event("callback", 0)} \subseteq Range(SubSeq(log, 1, i - 1))
        /\ \A j \in (i + 1)..Len(log) : log[j].ev = "threw"
\* the callback has been called after abort(), which threw, cancel() and a
\* timer clear, and clean() has ended
C12_Witness ==
  /\ last.op = "clean"
  /\ Len(last.log) >= 5
  /\ last.log[Len(last.log)] = Event("callback", 0)
  /\ Threw(last.log, "abort")
  /\ Event("cancel", 0) \in Range(last.log)
  /\ \E e \in Range(last.log) : e.ev \in Clears

\* C13, as claimed: in one call of clean(), abort() comes before cancel(), both
\* before any timer clear, and every timeout is cleared before any interval.
C13_TimeoutsBeforeIntervals ==
  \A log \in CleanLogs :
    /\ Before(log, {"abort"}, {"cancel"})
    /\ Before(log, {"abort", "cancel"}, Clears)
    /\ Before(log, {"clearTimeout"}, {"clearInterval"})
\* C13, amended: in one call of clean(), abort() comes before cancel(), both
\* before any timer clear, and every interval is cleared before any timeout.
C13_IntervalsBeforeTimeouts ==
  \A log \in CleanLogs :
    /\ Before(log, {"abort"}, {"cancel"})
    /\ Before(log, {"abort", "cancel"}, Clears)
    /\ Before(log, {"clearInterval"}, {"clearTimeout"})
\* one call of clean() has called abort() and cancel() and has cleared an
\* interval and a timeout
C13_Witness ==
  /\ last.op = "clean"
  /\ {"abort", "cancel", "clearInterval", "clearTimeout"} \subseteq {e.ev : e \in Range(last.log)}

\* C14: once a call of clean() of a guard has ended, so in every turn that
\* starts after the turn that ran it, no call of a wrapper of the guard makes
\* the original function run, whether or not anything was cancelled; and the
\* wrappers are the objects made at construction, so a reference taken before
\* clean() is the wrapper a later read gives.
C14_LaterTurnsNeverForward ==
  [][\A g \in Guards :
       /\ (stalled[g] /\ ~OnStack("clean", g)) => ~Pushed("orig", g)
       /\ proxies[g].made => proxies'[g] = proxies[g]]_vars
\* in a turn after clean(), which had nothing to abort or cancel, the host
\* (a resolved request, a timer) called a wrapper and the call was discarded
C14_Witness ==
  /\ stack = <<>>
  /\ last.op = "call"
  /\ ~last.forwarded
  /\ stalled[last.g]
  /\ ~HasMethod(opts.abortController)
  /\ ~HasMethod(opts.cancelTokenSource)

\* C15: a call of a wrapper forwards exactly when _stalled is false as the
\* call enters; a call that has been forwarded stays on the stack until its
\* original ends and then returns the original's result, also when clean()
\* was called meanwhile.
C15_DecidedAtEntry ==
  [][/\ \A g \in Guards :
          /\ Pushed("orig", g) => ~stalled[g]
          /\ Discarded(g) => stalled[g]
     /\ \A i \in 1..Len(stack) :
          stack[i].kind = "orig" =>
            IF i = Len(stack) /\ stack' = Pop(stack)
              THEN /\ last'.op = "call"
                   /\ last'.g = stack[i].g
                   /\ last'.forwarded
                   /\ ~last'.threw => last'.ret = last'.orig
              ELSE Len(stack') >= i /\ stack'[i] = stack[i]]_vars
\* the original called clean() of its own guard and then returned a value,
\* which the wrapper returned
C15_Witness ==
  /\ last.op = "call"
  /\ last.forwarded
  /\ last.ret = "ret"
  /\ stalled[last.g]

\* C16: clean() skips what opts does not hold: it calls abort(), cancel(), a
\* timer clear or the callback only when opts holds the field, it makes no
\* call at all when there is no opts, it sets _stalled whichever fields are
\* there, and when it raises, the error is one the callback threw, not one
\* from a missing field.
C16_AbsentOptionsSkipped ==
  /\ \A log \in CleanLogs :
       /\ \A e \in Range(log) :
            /\ e.ev = "abort" => opts.abortController # Absent
            /\ e.ev = "cancel" => opts.cancelTokenSource # Absent
            /\ e.ev = "clearInterval" => opts.intervalIds
            /\ e.ev = "clearTimeout" => opts.timeoutIds
            /\ e.ev = "callback" => opts.callback
       /\ ~opts.given => log = <<>>
  /\ last.op = "clean" =>
       /\ stalled[last.g]
       /\ last.threw =>
            /\ Len(last.log) >= 2
            /\ last.log[Len(last.log) - 1] = Event("callback", 0)
\* clean() has ended for opts that hold an abortController and a store of
\* timeouts and nothing else: it called abort() and cleared a timeout
C16_Witness ==
  /\ last.op = "clean"
  /\ ~last.threw
  /\ stalled[last.g]
  /\ opts.abortController # Absent
  /\ opts.cancelTokenSource = Absent
  /\ ~opts.intervalIds
  /\ ~opts.callback
  /\ {e.ev : e \in Range(last.log)} = {"abort", "clearTimeout"}

\* C17: createEffectCleaner calls nothing and changes nothing of the caller's:
\* the step that makes a guard leaves the stack, the state modifiers, opts, the
\* timer stores and the other guards as they are, ends no call, and the guard
\* it returns is active.
C17_ConstructionHasNoEffects ==
  [][\A g \in Guards :
       (~proxies[g].made /\ proxies'[g].made) =>
         /\ ~stalled'[g]
         /\ stack' = stack
         /\ last' = NoOutcome
         /\ stateModifiers' = stateModifiers
         /\ opts' = opts
         /\ timerIds' = timerIds
         /\ \A h \in Guards \ {g} : proxies'[h] = proxies[h] /\ stalled'[h] = stalled[h]]_vars
\* a second guard has been made, active, while the first is stalled and a
\* store holds a timer
C17_Witness ==
  /\ proxies[2].made
  /\ ~stalled[2]
  /\ stalled[1]
  /\ stack = <<>>
  /\ last = NoOutcome
  /\ StoreIds("timeoutIds") \cup StoreIds("intervalIds") # {}

\* the number of entries of this log that are the call e
Count(log, e) == Cardinality({i \in 1..Len(log) : log[i] = e})

\* C18: every call of clean(), the first and any later one, runs all its
\* steps and does not raise: it ends with the flag set and has called abort(),
\* cancel(), the clear of each timer and the callback once each.
C18_EveryCleanRunsAllSteps ==
  last.op = "clean" =>
    /\ ~last.threw
    /\ stalled[last.g]
    /\ \A e \in ExpectedCalls : Count(last.log, e) = 1

\* C19: guards are independent: a call of clean() of one guard leaves the
\* flag and the wrappers of every other guard as they are, and no call of a
\* wrapper of an active guard is discarded because another guard is stalled.
C19_GuardsAreIndependent ==
  [][\A g \in Guards : \A h \in Guards \ {g} :
       /\ CleanEntered(g) => (stalled'[h] = stalled[h] /\ proxies'[h] = proxies[h])
       /\ (stalled[g] /\ ~stalled[h]) => ~Discarded(h)]_vars
\* with guard 1 stalled, a call of a wrapper of guard 2, which wraps the same
\* functions and shares the same opts, has been forwarded and has returned
C19_Witness ==
  /\ last.op = "call"
  /\ last.g = 2
  /\ last.forwarded
  /\ stalled[1]
  /\ ~stalled[2]

\* a call of the wrapper under key k of guard g can be made and would be forwarded
WouldForward(g, k) ==
  ENABLED (/\ \E c \in CallShapes : Apply(g, k, c.this, c.args)
           /\ Len(stack') = Len(stack) + 1)
\* a call of the wrapper under key k of guard g can be made and would be discarded
WouldDiscard(g, k) ==
  ENABLED (/\ \E c \in CallShapes : Apply(g, k, c.this, c.args)
           /\ stack' = stack)
\* the keys of guard g that hold wrappers
WrapperKeys(g) == {k \in DOMAIN proxies[g].obj : proxies[g].obj[k].kind = "proxy"}

\* C20: the wrappers of one guard switch together: in every state either a
\* call of any wrapper of the guard would be forwarded or a call of any
\* wrapper of the guard would be discarded.
C20_WrappersSwitchTogether ==
  \A g \in Guards :
    (proxies[g].made /\ ops < MaxOps) =>
      \/ \A k \in WrapperKeys(g) : WouldForward(g, k) /\ ~WouldDiscard(g, k)
      \/ \A k \in WrapperKeys(g) : WouldDiscard(g, k) /\ ~WouldForward(g, k)
\* a guard with two wrappers is stalled, a call of one has just been
\* discarded and a call of the other can still be made
C20_Witness ==
  /\ last.op = "call"
  /\ ~last.forwarded
  /\ stalled[last.g]
  /\ WrapperKeys(last.g) = {"setUser", "setCount"}
  /\ ops < MaxOps

====
